---------------------------- MODULE Spec2Model ----------------------------
(***************************************************************************)
(* Model of the schema-to-Excel exporters:                                 *)
(*   dialect "A"  src/db_schema_to_excel.py      (SQL Server catalog)      *)
(*   dialect "B"  src/oracle_schema_to_excel.py  (Oracle data dictionary,  *)
(*                styled by src/db_schema_utils.py)                        *)
(*                                                                         *)
(* Spec      one run of __main__ / create_table_specification              *)
(* SpecType  the type-string formatting of one catalog column row          *)
(* SpecCol   get_column_info on one table's column rows and FK rows        *)
(* SpecStyle the column width apply_sheet_style sets on one sheet column   *)
(*                                                                         *)
(* Strings of the source that are not ASCII are transliterated:            *)
(*   sheet name "TOC" is the contents sheet, kinds "TABLE" / "VIEW" are    *)
(*   the two labels of its first column.                                   *)
(***************************************************************************)
EXTENDS Integers, Sequences, FiniteSets, TLC

VARIABLES
    dialect,     \* "A" or "B": which entry point runs
    pc,          \* position of the run in __main__ / create_table_specification
    conn,        \* the catalog connection: "none", "open", "closed"
    connects,    \* number of times engine.connect() returned a connection
    tables,      \* rows of the table-list query
    views,       \* rows of the view-list query
    i,           \* 1-based index of the table the loop is at
    snap,        \* table name -> [ncols, nidx] as returned by the catalog
    writer,      \* the ExcelWriter: "none", "open", "closed"
    file,        \* the output file: "absent" or "saved"
    toc,         \* rows of the contents sheet (toc_df plus the link of column 2)
    sheets,      \* sheet name -> [A1, blocks, entities]
    styleLog,    \* the calls of apply_sheet_style made so far
    log,         \* the steps executed so far, each with the connection state
    exc,         \* the exception in flight / raised: "none" or its class
    report,      \* what the entry point printed
    row,         \* SpecType: one raw catalog column row
    data_type,   \* SpecType: the displayed type string, Null before formatting
    results,     \* SpecCol: rows of column_query
    fk_results,  \* SpecCol: rows of fk_query
    columns,     \* SpecCol: the list get_column_info returns, Null before the call
    wsColumn,    \* SpecStyle: the cell values of one worksheet column, top down
    styleCall,   \* SpecStyle: the call [impl, startrow, n] of apply_sheet_style
    width        \* SpecStyle: column_dimensions[...].width, Null while not set

runVars == <<pc, conn, connects, tables, views, i, snap, writer, file, toc,
             sheets, styleLog, log, exc, report>>
typeVars == <<row, data_type>>
colVars == <<results, fk_results, columns>>
styleVars == <<wsColumn, styleCall, width>>
vars == <<dialect, runVars, typeVars, colVars, styleVars>>

----------------------------------------------------------------------------
(* Bounds of the model *)

\* tables and views in the catalog, column rows and index rows per table (Spec)
MaxTables == 2
MaxViews == 1
MaxCols == 2
MaxIdx == 1
\* column rows and foreign-key rows of the one table of SpecCol
MaxRows == 2
MaxFk == 2
\* cells of the worksheet column of SpecStyle
MaxCells == 3

\* SQL NULL / Python None is the empty tuple, a present value v is <<v>>.
Null == <<>>
Some(v) == <<v>>

Dialects == {"A", "B"}

RECURSIVE SeqOfSet(_)
\* The elements of a set of integers in increasing order (ORDER BY).
SeqOfSet(S) ==
    IF S = {} THEN <<>>
    ELSE LET m == CHOOSE x \in S : \A y \in S : y <= x
         IN Append(SeqOfSet(S \ {m}), m)

TableName(k) == "T" \o ToString(k)
ViewName(k) == "V" \o ToString(k)

\* The rows the table-list query can return: distinct names in name order.
\* Dialect A selects TABLE_NAME only; dialect B also selects the table comment.
TableLists(d) ==
    { [k \in 1..Cardinality(S) |->
          [TABLE_NAME |-> TableName(SeqOfSet(S)[k]),
           TABLE_COMMENT |-> IF c[SeqOfSet(S)[k]]
                             THEN Some("about " \o TableName(SeqOfSet(S)[k]))
                             ELSE Null]] :
      S \in SUBSET (1..MaxTables),
      c \in [1..MaxTables -> IF d = "B" THEN BOOLEAN ELSE {FALSE}] }

\* The rows the view-list query can return, in name order.
ViewLists(d) ==
    { [k \in 1..Cardinality(S) |->
          [VIEW_NAME |-> ViewName(SeqOfSet(S)[k]),
           VIEW_DEFINITION |-> "select " \o ViewName(SeqOfSet(S)[k]),
           COMMENTS |-> IF c[SeqOfSet(S)[k]]
                        THEN Some("about " \o ViewName(SeqOfSet(S)[k]))
                        ELSE Null]] :
      S \in SUBSET (1..MaxViews),
      c \in [1..MaxViews -> IF d = "B" THEN BOOLEAN ELSE {FALSE}] }

----------------------------------------------------------------------------
(* Sheets and layout *)

TocSheet == "TOC"
ViewsSheet == "Views"

\* v if v else ''
OrEmpty(v) == IF v = Null \/ v = Some("") THEN "" ELSE v[1]

\* DataFrame.to_excel(writer, sheet_name, index=False, startrow): the header goes
\* to sheet row startrow + 1 and the n data rows below it; an existing sheet of
\* that name is written into, a missing one is created.
ToExcel(sh, name, kind, startrow, n, ents) ==
    LET old == IF name \in DOMAIN sh THEN sh[name]
               ELSE [A1 |-> "", blocks |-> {}, entities |-> {}]
        new == [old EXCEPT
                  !.blocks = @ \cup {[kind |-> kind, header |-> startrow + 1,
                                      first |-> startrow + 2,
                                      last |-> startrow + 1 + n]},
                  !.entities = @ \cup ents]
    IN [s \in DOMAIN sh \cup {name} |-> IF s = name THEN new ELSE sh[s]]


\* startrow of the column block of a table sheet (rows 1 and 2 stay free for
\* the back link and a gap).
ColumnStartRow == 2

\* A slip in the offset: the index block one row higher.
IndexStartRow_OneGapRow(n) == n + 4

\* startrow of the index block under a column block of n data rows.
IndexStartRow(n) == n + 5

\* The link left out: A1 keeps its text but carries no hyperlink.
TableSheetA1_NoLink == ""

\* The hyperlink put into A1 of a table sheet.
TableSheetA1 == "#" \o TocSheet \o "!A1"

\* The hyperlink put on the name cell of a contents row.
TocLink(name) == "#" \o name \o "!A1"

----------------------------------------------------------------------------
(* apply_sheet_style: the rows that get the header fill and the stripe fill *)

\* db_schema_to_excel.apply_sheet_style: every second row from the first data row.
StripeRowsExcel(startrow, n) ==
    { r \in (startrow + 2)..(startrow + n + 1) : (r - (startrow + 2)) % 2 = 0 }

\* The utilities' stripe taken by position within the region, as the other
\* implementation does.
StripeRowsUtils_ByPosition(startrow, n) ==
    { r \in (startrow + 2)..(startrow + n + 1) : (r - (startrow + 2)) % 2 = 0 }

\* db_schema_utils.apply_sheet_style: the data rows whose sheet row number is even.
StripeRowsUtils(startrow, n) ==
    { r \in (startrow + 2)..(startrow + n + 1) : r % 2 = 0 }

\* One call apply_sheet_style(worksheet, df, startrow) with len(df) = n, as the
\* entry point of dialect d resolves the name: A calls its own definition, B the
\* one imported from db_schema_utils (which does nothing for an empty frame).
ApplySheetStyle(d, sheet, startrow, n) ==
    IF d = "A"
    THEN [impl |-> "excel", sheet |-> sheet, startrow |-> startrow, n |-> n,
          header |-> {startrow + 1},
          stripes |-> StripeRowsExcel(startrow, n)]
    ELSE [impl |-> "utils", sheet |-> sheet, startrow |-> startrow, n |-> n,
          header |-> IF n > 0 THEN {startrow + 1} ELSE {},
          stripes |-> StripeRowsUtils(startrow, n)]

----------------------------------------------------------------------------
(* The contents sheet *)

Rep(x, n) == [k \in 1..n |-> x]

\* The name list built views first while the kind list stays tables first.
TocData_NamesViewsFirst(d, ts, vs) ==
    LET kinds == Rep("TABLE", Len(ts)) \o Rep("VIEW", Len(vs))
        names == [k \in 1..Len(vs) |-> vs[k].VIEW_NAME]
                 \o [k \in 1..Len(ts) |-> ts[k].TABLE_NAME]
    IN [k \in 1..Len(names) |->
          [kind |-> kinds[k], name |-> names[k], desc |-> "", link |-> ""]]

\* toc_data and the DataFrame built from it: three lists of equal length, one
\* row per position.  The link field is the hyperlink of the name cell.
TocData(d, ts, vs) ==
    LET kinds == Rep("TABLE", Len(ts)) \o Rep("VIEW", Len(vs))
        names == [k \in 1..Len(ts) |-> ts[k].TABLE_NAME]
                 \o [k \in 1..Len(vs) |-> vs[k].VIEW_NAME]
        descs == IF d = "A"
                 THEN Rep("", Len(ts) + Len(vs))
                 ELSE [k \in 1..Len(ts) |-> OrEmpty(ts[k].TABLE_COMMENT)]
                      \o [k \in 1..Len(vs) |-> OrEmpty(vs[k].COMMENTS)]
    IN [k \in 1..Len(names) |->
          [kind |-> kinds[k], name |-> names[k], desc |-> descs[k], link |-> ""]]

\* The connection closed by a call at the end of the block instead of by the
\* block's exit: an exception passes it by.
ReleaseConnection_OnSuccessOnly(e) == IF e = "none" THEN "closed" ELSE "open"

\* What leaving the "with engine.connect()" block does to the connection.
ReleaseConnection(e) == "closed"

Logged(op, on) == Append(log, [op |-> op, on |-> on, conn |-> conn])

----------------------------------------------------------------------------
(* One run of the entry point *)

RunInit ==
    /\ pc = "connect"
    /\ conn = "none"
    /\ connects = 0
    /\ tables = <<>>
    /\ views = <<>>
    /\ i = 1
    /\ snap = <<>>
    /\ writer = "none"
    /\ file = "absent"
    /\ toc = <<>>
    /\ sheets = <<>>
    /\ styleLog = {}
    /\ log = <<>>
    /\ exc = "none"
    /\ report = "none"

TypeIdle == row = Null /\ data_type = Null
StyleIdle == wsColumn = <<>> /\ styleCall = Null /\ width = Null
ColIdle == results = <<>> /\ fk_results = <<>> /\ columns = Null

Init ==
    /\ dialect \in Dialects
    /\ RunInit
    /\ StyleIdle
    /\ TypeIdle
    /\ ColIdle

\* An exception raised inside the "with pd.ExcelWriter" block leaves through the
\* writer's exit; one raised outside it, inside "with engine.connect()", leaves
\* through the connection's exit.
Raise(e, to) ==
    /\ exc' = e
    /\ pc' = to

\* engine.connect()
Connect ==
    /\ pc = "connect"
    /\ log' = Logged("connect", "")
    /\ \/ /\ conn' = "open"
          /\ connects' = connects + 1
          /\ pc' = "list_tables"
          /\ UNCHANGED exc
       \/ /\ Raise("Exception", "report")
          /\ UNCHANGED <<conn, connects>>
    /\ UNCHANGED <<dialect, tables, views, i, snap, writer, file, toc, sheets,
                   styleLog, report, typeVars, colVars, styleVars>>

\* tables = connection.execute(table_query).fetchall()
ListTables ==
    /\ pc = "list_tables"
    /\ log' = Logged("table_query", "")
    /\ \/ /\ \E ts \in TableLists(dialect) : tables' = ts
          /\ pc' = "list_views"
          /\ UNCHANGED exc
       \/ /\ Raise("Exception", "conn_exit")
          /\ UNCHANGED tables
    /\ UNCHANGED <<dialect, conn, connects, views, i, snap, writer, file, toc,
                   sheets, styleLog, report, typeVars, colVars, styleVars>>

\* views = get_views(connection)
ListViews ==
    /\ pc = "list_views"
    /\ log' = Logged("view_query", "")
    /\ \/ /\ \E vs \in ViewLists(dialect) : views' = vs
          /\ pc' = "create_writer"
          /\ UNCHANGED exc
       \/ /\ Raise("Exception", "conn_exit")
          /\ UNCHANGED views
    /\ UNCHANGED <<dialect, conn, connects, tables, i, snap, writer, file, toc,
                   sheets, styleLog, report, typeVars, colVars, styleVars>>

\* with pd.ExcelWriter(output_file, engine='openpyxl') as writer: the target is
\* opened for writing, which a lock held by another process refuses.
CreateWriter ==
    /\ pc = "create_writer"
    /\ log' = Logged("create_writer", "")
    /\ \/ /\ writer' = "open"
          /\ pc' = "build_toc"
          /\ UNCHANGED exc
       \/ /\ Raise("PermissionError", "conn_exit")
          /\ UNCHANGED writer
    /\ UNCHANGED <<dialect, conn, connects, tables, views, i, snap, file, toc,
                   sheets, styleLog, report, typeVars, colVars, styleVars>>

\* 1. the contents sheet: toc_df, to_excel, apply_sheet_style
BuildToc ==
    /\ pc = "build_toc"
    /\ log' = Logged("build_toc", "")
    /\ toc' = TocData(dialect, tables, views)
    /\ sheets' = ToExcel(sheets, TocSheet, "toc", 0, Len(toc'), {})
    /\ styleLog' = styleLog \cup {ApplySheetStyle(dialect, TocSheet, 0, Len(toc'))}
    /\ i' = 1
    /\ pc' = IF Len(tables) = 0 THEN "views" ELSE "columns"
    /\ UNCHANGED <<dialect, conn, connects, tables, views, snap, writer, file,
                   exc, report, typeVars, colVars, styleVars>>

SnapPut(name, rec) ==
    [t \in DOMAIN snap \cup {name} |-> IF t = name THEN rec ELSE snap[t]]

\* 2.1 columns_info = get_column_info(...): the column query, then the foreign-key
\* query; columns_df[[...]] raises KeyError on a frame built from no rows.
GetColumnInfo ==
    /\ pc = "columns"
    /\ LET name == tables[i].TABLE_NAME IN
       \/ /\ log' = Logged("column_query", name)
          /\ Raise("Exception", "writer_exit")
          /\ UNCHANGED snap
       \/ /\ log' = Append(Logged("column_query", name),
                           [op |-> "fk_query", on |-> name, conn |-> conn])
          /\ Raise("Exception", "writer_exit")
          /\ UNCHANGED snap
       \/ /\ log' = Append(Logged("column_query", name),
                           [op |-> "fk_query", on |-> name, conn |-> conn])
          /\ \E n \in 0..MaxCols :
               /\ snap' = SnapPut(name, [ncols |-> n, nidx |-> 0])
               /\ IF n = 0
                  THEN Raise("KeyError", "writer_exit")
                  ELSE pc' = "indexes" /\ UNCHANGED exc
    /\ UNCHANGED <<dialect, conn, connects, tables, views, i, writer, file, toc,
                   sheets, styleLog, report, typeVars, colVars, styleVars>>

\* 2.2 indexes = get_table_indexes(...)
GetTableIndexes ==
    /\ pc = "indexes"
    /\ LET name == tables[i].TABLE_NAME IN
       /\ log' = Logged("index_query", name)
       /\ \/ /\ Raise("Exception", "writer_exit")
             /\ UNCHANGED snap
          \/ /\ \E m \in 0..MaxIdx :
                  snap' = SnapPut(name, [ncols |-> snap[name].ncols, nidx |-> m])
             /\ pc' = "sheet"
             /\ UNCHANGED exc
    /\ UNCHANGED <<dialect, conn, connects, tables, views, i, writer, file, toc,
                   sheets, styleLog, report, typeVars, colVars, styleVars>>

\* The table's sheet: the column block, the link in A1, its style, and, when
\* indexes_df is not empty, the index block and its style.
WriteTableSheet ==
    /\ pc = "sheet"
    /\ LET name == tables[i].TABLE_NAME
           n == snap[name].ncols
           m == snap[name].nidx
           s1 == ToExcel(sheets, name, "columns", ColumnStartRow, n, {name})
           s2 == [s1 EXCEPT ![name].A1 = TableSheetA1]
           s3 == IF m > 0
                 THEN ToExcel(s2, name, "indexes", IndexStartRow(n), m, {})
                 ELSE s2
           st == {ApplySheetStyle(dialect, name, ColumnStartRow, n)} \cup
                 IF m > 0
                 THEN {ApplySheetStyle(dialect, name, IndexStartRow(n), m)}
                 ELSE {}
       IN /\ sheets' = s3
          /\ styleLog' = styleLog \cup st
          /\ log' = Logged("write_sheet", name)
    /\ i' = i + 1
    /\ pc' = IF i = Len(tables) THEN "views" ELSE "columns"
    /\ UNCHANGED <<dialect, conn, connects, tables, views, snap, writer, file,
                   toc, exc, report, typeVars, colVars, styleVars>>

\* The Views sheet built without the test "if views".
BuildViewSheet_Always ==
    /\ pc = "views"
    /\ sheets' = ToExcel(sheets, ViewsSheet, "views", 0, Len(views),
                         {views[k].VIEW_NAME : k \in 1..Len(views)})
    /\ styleLog' = styleLog \cup
                   {ApplySheetStyle(dialect, ViewsSheet, 0, Len(views))}
    /\ log' = Logged("view_sheet", "")
    /\ pc' = IF dialect = "A" THEN "links" ELSE "writer_exit"
    /\ UNCHANGED <<dialect, conn, connects, tables, views, i, snap, writer, file,
                   toc, exc, report, typeVars, colVars, styleVars>>

\* 3. if views: the Views sheet, written from row 1, and its style.  Dialect A
\* goes on to the links of the contents sheet; dialect B has no such step.
BuildViewSheet ==
    /\ pc = "views"
    /\ IF Len(views) > 0
       THEN /\ sheets' = ToExcel(sheets, ViewsSheet, "views", 0, Len(views),
                                 {views[k].VIEW_NAME : k \in 1..Len(views)})
            /\ styleLog' = styleLog \cup
                           {ApplySheetStyle(dialect, ViewsSheet, 0, Len(views))}
            /\ log' = Logged("view_sheet", "")
       ELSE UNCHANGED <<sheets, styleLog, log>>
    /\ pc' = IF dialect = "A" THEN "links" ELSE "writer_exit"
    /\ UNCHANGED <<dialect, conn, connects, tables, views, i, snap, writer, file,
                   toc, exc, report, typeVars, colVars, styleVars>>

\* 4. (dialect A) a hyperlink on the name cell of every contents row
AttachLinks ==
    /\ pc = "links"
    /\ toc' = [k \in 1..Len(toc) |-> [toc[k] EXCEPT !.link = TocLink(toc[k].name)]]
    /\ log' = Logged("links", "")
    /\ pc' = "writer_exit"
    /\ UNCHANGED <<dialect, conn, connects, tables, views, i, snap, writer, file,
                   sheets, styleLog, exc, report, typeVars, colVars, styleVars>>

\* Leaving "with pd.ExcelWriter(...)": ExcelWriter.__exit__ closes the writer on
\* every way out of the block, with or without an exception in flight, and
\* closing saves the workbook built so far to the target.  The save itself can
\* be refused (the target is locked).
WriterExit ==
    /\ pc = "writer_exit"
    /\ writer' = "closed"
    /\ log' = Logged("save", "")
    /\ \/ /\ file' = "saved"
          /\ UNCHANGED exc
       \/ /\ exc' = "PermissionError"
          /\ UNCHANGED file
    /\ pc' = "conn_exit"
    /\ UNCHANGED <<dialect, conn, connects, tables, views, i, snap, toc, sheets,
                   styleLog, report, typeVars, colVars, styleVars>>

\* Leaving "with engine.connect() as connection"
ConnExit ==
    /\ pc = "conn_exit"
    /\ conn' = ReleaseConnection(exc)
    /\ log' = Logged("close", "")
    /\ pc' = "report"
    /\ UNCHANGED <<dialect, connects, tables, views, i, snap, writer, file, toc,
                   sheets, styleLog, exc, report, typeVars, colVars, styleVars>>

\* What the entry point prints for the exception e that reached it.
MainReport(d, e) ==
    IF e = "none" THEN (IF d = "B" THEN "created" ELSE "none")
    ELSE IF d = "A" /\ e = "PermissionError" THEN "close_the_file"
    ELSE "generic"

\* The end of create_table_specification and the try/except of __main__
Report ==
    /\ pc = "report"
    /\ report' = MainReport(dialect, exc)
    /\ pc' = "done"
    /\ UNCHANGED <<dialect, conn, connects, tables, views, i, snap, writer, file,
                   toc, sheets, styleLog, log, exc, typeVars, colVars, styleVars>>

Next ==
    \/ Connect
    \/ ListTables
    \/ ListViews
    \/ CreateWriter
    \/ BuildToc
    \/ GetColumnInfo
    \/ GetTableIndexes
    \/ WriteTableSheet
    \/ BuildViewSheet
    \/ AttachLinks
    \/ WriterExit
    \/ ConnExit
    \/ Report

Spec == Init /\ [][Next]_vars

----------------------------------------------------------------------------
(* Claims about the run *)

Succeeded == pc = "done" /\ exc = "none"

\* C1: after a successful run the name cell of every contents row carries a
\* hyperlink to A1 of an existing sheet, and that sheet is the one the entity's
\* data was written under.
C1_TocLinksReachEntitySheets ==
    Succeeded =>
        \A k \in 1..Len(toc) :
            \E s \in DOMAIN sheets :
                /\ toc[k].link = "#" \o s \o "!A1"
                /\ toc[k].name \in sheets[s].entities

BlocksOf(s, kind) == { b \in sheets[s].blocks : b.kind = kind }

\* C3: a table of N >= 1 columns has its column header at row 3 and a column
\* block of height N + 1; with at least one index the index header is at row
\* 3 + (N + 1) + 2, below the column block; with no index there is no index
\* block, and only a table of no columns stops the run with the layout error.
C3_IndexBlockPlacement ==
    /\ \A s \in DOMAIN sheets \cap DOMAIN snap :
          LET N == snap[s].ncols IN
          /\ N >= 1
          /\ \E cb \in BlocksOf(s, "columns") :
                /\ BlocksOf(s, "columns") = {cb}
                /\ cb.header = 3
                /\ cb.last - cb.header + 1 = N + 1
                /\ IF snap[s].nidx >= 1
                   THEN \E ib \in BlocksOf(s, "indexes") :
                           /\ BlocksOf(s, "indexes") = {ib}
                           /\ ib.header = 3 + (N + 1) + 2
                           /\ ib.header > cb.last
                           /\ ib.last - ib.header = snap[s].nidx
                   ELSE BlocksOf(s, "indexes") = {}
    /\ \A k \in 1..Len(tables) : k < i => tables[k].TABLE_NAME \in DOMAIN sheets
    /\ exc = "KeyError" => snap[tables[i].TABLE_NAME].ncols = 0

C3_Witness ==
    /\ Succeeded
    /\ \E s \in DOMAIN sheets \cap DOMAIN snap :
          snap[s].ncols = 2 /\ snap[s].nidx >= 1
    /\ \E s \in DOMAIN sheets \cap DOMAIN snap :
          snap[s].ncols = 1 /\ snap[s].nidx = 0

\* C6: the contents sheet has len(tables) + len(views) data rows, the tables in
\* table-list order labelled as tables, then the views in view-list order
\* labelled as views; kind, name and description of a row are of one entity.
C6_TocIsTablesThenViews ==
    "TOC" \in DOMAIN sheets =>
        /\ Len(toc) = Len(tables) + Len(views)
        /\ \E b \in BlocksOf("TOC", "toc") :
              b.header = 1 /\ b.last - b.header = Len(tables) + Len(views)
        /\ \A k \in 1..Len(tables) :
              /\ toc[k].kind = "TABLE"
              /\ toc[k].name = tables[k].TABLE_NAME
              /\ toc[k].desc = IF dialect = "B" /\ tables[k].TABLE_COMMENT /= Null
                               THEN tables[k].TABLE_COMMENT[1] ELSE ""
        /\ \A k \in 1..Len(views) :
              /\ toc[Len(tables) + k].kind = "VIEW"
              /\ toc[Len(tables) + k].name = views[k].VIEW_NAME
              /\ toc[Len(tables) + k].desc = IF dialect = "B" /\ views[k].COMMENTS /= Null
                                             THEN views[k].COMMENTS[1] ELSE ""

C6_Witness ==
    /\ "TOC" \in DOMAIN sheets
    /\ dialect = "B"
    /\ Len(tables) = 2
    /\ Len(views) >= 1
    /\ tables[2].TABLE_COMMENT /= Null

\* C7: the output file exists in final form only in runs in which no step
\* failed; a failure after the writer was created leaves no file.
C7_NoFileAfterFailure ==
    file = "saved" => exc = "none"

QueryOps == {"table_query", "view_query", "column_query", "fk_query", "index_query"}

\* C8: the connection is acquired at most once, every catalog query runs while
\* it is open, and every run that acquired it ends with it closed.
C8_ConnectionScoped ==
    /\ connects <= 1
    /\ \A k \in 1..Len(log) : log[k].op \in QueryOps => log[k].conn = "open"
    /\ (pc = "done" /\ connects = 1) => conn = "closed"
    /\ conn = "closed" => pc \in {"report", "done"}

C8_Witness ==
    /\ pc = "done"
    /\ exc = "KeyError"
    /\ conn = "closed"
    /\ \E k \in 1..Len(log) : log[k].op = "index_query"

\* C9: in both entry points a run that ends with the output file locked
\* reports the advice to close the file, and no other failure does.
C9_LockedReportedDistinctly ==
    pc = "done" =>
        /\ exc = "PermissionError" => report = "close_the_file"
        /\ (exc /= "none" /\ exc /= "PermissionError") => report = "generic"

DataRows(c) == (c.startrow + 2)..(c.startrow + c.n + 1)

\* C10 as stated: in both implementations a data row of the region gets the
\* stripe fill exactly when its sheet row number is even.
C10_StripeByAbsoluteParity ==
    \A c \in styleLog : c.stripes = { r \in DataRows(c) : r % 2 = 0 }

\* C10 (amended): db_schema_utils.apply_sheet_style stripes the data rows whose
\* sheet row number is even; db_schema_to_excel.apply_sheet_style stripes the
\* first data row and every second one after it (r - startrow even), whatever
\* the parity of startrow; neither stripes the header row or a row outside the
\* region.
C10_StripeByImplementation ==
    \A c \in styleLog :
        /\ c.stripes \subseteq DataRows(c)
        /\ \A r \in DataRows(c) :
              r \in c.stripes <=>
                  IF c.impl = "utils" THEN r % 2 = 0
                  ELSE (r - c.startrow) % 2 = 0

C10_Witness ==
    \E c \in styleLog :
        /\ c.impl = "excel"
        /\ c.startrow % 2 = 1
        /\ c.n >= 1
        /\ c.stripes /= {}

----------------------------------------------------------------------------
(* The displayed type of one column row *)

\* Python truth of a nullable number: None and 0 are false.
Truthy(v) == v /= Null /\ v[1] /= 0

\* Python truth of a nullable string: None and '' are false.
TruthyStr(v) == v /= Null /\ v[1] /= ""

\* The types of the model on which  DATA_TYPE LIKE '%CHAR%'  holds.
LikeCHAR(t) == t \in {"CHAR", "NCHAR", "VARCHAR", "VARCHAR2", "NVARCHAR2"}

\* x || y of the data dictionary's SQL: NULL concatenates as the empty string.
NumText(v) == IF v = Null THEN "" ELSE ToString(v[1])

\* Dialect A: the suffix rule of get_column_info on the raw catalog fields.
FormatTypeA(r) ==
    IF Truthy(r.CHARACTER_MAXIMUM_LENGTH)
    THEN r.DATA_TYPE \o "(" \o ToString(r.CHARACTER_MAXIMUM_LENGTH[1]) \o ")"
    ELSE IF r.NUMERIC_PRECISION /= Null /\ r.NUMERIC_SCALE /= Null
    THEN r.DATA_TYPE \o "(" \o ToString(r.NUMERIC_PRECISION[1]) \o ","
                     \o ToString(r.NUMERIC_SCALE[1]) \o ")"
    ELSE r.DATA_TYPE

\* Dialect B: the CASE expression of column_query that yields DATA_LENGTH.
DataLengthB(r) ==
    IF r.DATA_TYPE = "NUMBER" /\ r.DATA_PRECISION /= Null
    THEN Some(NumText(r.DATA_PRECISION) \o "," \o NumText(r.DATA_SCALE))
    ELSE IF LikeCHAR(r.DATA_TYPE) \/ r.DATA_TYPE = "NVARCHAR2"
    THEN (IF r.CHAR_LENGTH = Null THEN Null ELSE Some(NumText(r.CHAR_LENGTH)))
    ELSE Null

\* Dialect B: the suffix rule of get_column_info on DATA_LENGTH.
FormatTypeB(r) ==
    IF TruthyStr(DataLengthB(r))
    THEN r.DATA_TYPE \o "(" \o DataLengthB(r)[1] \o ")"
    ELSE r.DATA_TYPE

FormatType(d, r) == IF d = "A" THEN FormatTypeA(r) ELSE FormatTypeB(r)

\* Type fields a catalog row can carry.  A character length is NULL or a
\* non-zero number (-1 is the catalog's value for an unbounded length).
TypeRowsA ==
    [DATA_TYPE : {"VARCHAR", "NUMBER", "DATE"},
     CHARACTER_MAXIMUM_LENGTH : {Null, Some(50), Some(-1)},
     NUMERIC_PRECISION : {Null, Some(10)},
     NUMERIC_SCALE : {Null, Some(2), Some(0)}]

TypeRowsB ==
    [DATA_TYPE : {"VARCHAR", "NVARCHAR2", "NUMBER", "DATE"},
     CHAR_LENGTH : {Null, Some(50)},
     DATA_PRECISION : {Null, Some(10)},
     DATA_SCALE : {Null, Some(2), Some(0)}]

InitType ==
    /\ dialect \in Dialects
    /\ row \in {Some(r) : r \in IF dialect = "A" THEN TypeRowsA ELSE TypeRowsB}
    /\ data_type = Null
    /\ RunInit
    /\ StyleIdle
    /\ ColIdle

\* The body of the row loop up to the type string.
FormatRow ==
    /\ data_type = Null
    /\ data_type' = Some(FormatType(dialect, row[1]))
    /\ UNCHANGED <<dialect, runVars, row, colVars, styleVars>>

NextType == FormatRow

SpecType == InitType /\ [][NextType]_vars

\* The fields of the row as the claim names them: dialect B counts a length
\* only on a character type and precision and scale only on NUMBER.
ClaimLength(d, r) ==
    IF d = "A" THEN r.CHARACTER_MAXIMUM_LENGTH
    ELSE IF LikeCHAR(r.DATA_TYPE) THEN r.CHAR_LENGTH ELSE Null
ClaimPrecision(d, r) ==
    IF d = "A" THEN r.NUMERIC_PRECISION
    ELSE IF r.DATA_TYPE = "NUMBER" THEN r.DATA_PRECISION ELSE Null
ClaimScale(d, r) ==
    IF d = "A" THEN r.NUMERIC_SCALE
    ELSE IF r.DATA_TYPE = "NUMBER" THEN r.DATA_SCALE ELSE Null

\* C4: the displayed type is the base type followed by "(length)" when a
\* character length is present, else by "(precision,scale)" when both are
\* present, else by nothing; precision without scale gives no suffix.
C4_TypeStringRule ==
    data_type /= Null =>
        LET r == row[1]
            len == ClaimLength(dialect, r)
            p == ClaimPrecision(dialect, r)
            sc == ClaimScale(dialect, r)
        IN data_type[1] =
              IF len /= Null
              THEN r.DATA_TYPE \o "(" \o ToString(len[1]) \o ")"
              ELSE IF p /= Null /\ sc /= Null
              THEN r.DATA_TYPE \o "(" \o ToString(p[1]) \o "," \o ToString(sc[1]) \o ")"
              ELSE r.DATA_TYPE

----------------------------------------------------------------------------
(* get_column_info on the rows of one table *)

\* Sequences of length at most n over S.
SeqsUpTo(S, n) == UNION { [1..k -> S] : k \in 0..n }

\* Column rows of table ORDERS as the column query of each dialect returns them.
ColumnRowsA ==
    { [COLUMN_NAME |-> "ID", DATA_TYPE |-> "int", IS_NULLABLE |-> "NO",
       CHARACTER_MAXIMUM_LENGTH |-> Null, NUMERIC_PRECISION |-> Some(10),
       NUMERIC_SCALE |-> Some(0), IS_PRIMARY_KEY |-> "Y",
       COLUMN_DESCRIPTION |-> Some("order id")],
      [COLUMN_NAME |-> "CUSTOMER_ID", DATA_TYPE |-> "int", IS_NULLABLE |-> "NO",
       CHARACTER_MAXIMUM_LENGTH |-> Null, NUMERIC_PRECISION |-> Some(10),
       NUMERIC_SCALE |-> Some(0), IS_PRIMARY_KEY |-> "N",
       COLUMN_DESCRIPTION |-> Null],
      [COLUMN_NAME |-> "NOTE", DATA_TYPE |-> "varchar", IS_NULLABLE |-> "YES",
       CHARACTER_MAXIMUM_LENGTH |-> Some(50), NUMERIC_PRECISION |-> Null,
       NUMERIC_SCALE |-> Null, IS_PRIMARY_KEY |-> "N",
       COLUMN_DESCRIPTION |-> Null] }

ColumnRowsB ==
    { [COLUMN_NAME |-> "ID", DATA_TYPE |-> "NUMBER", NULLABLE |-> "N",
       CHAR_LENGTH |-> Null, DATA_PRECISION |-> Some(10), DATA_SCALE |-> Some(0),
       IS_PRIMARY_KEY |-> "Y", COMMENTS |-> Some("order id")],
      [COLUMN_NAME |-> "CUSTOMER_ID", DATA_TYPE |-> "NUMBER", NULLABLE |-> "N",
       CHAR_LENGTH |-> Null, DATA_PRECISION |-> Some(10), DATA_SCALE |-> Some(0),
       IS_PRIMARY_KEY |-> "N", COMMENTS |-> Null],
      [COLUMN_NAME |-> "NOTE", DATA_TYPE |-> "VARCHAR2", NULLABLE |-> "Y",
       CHAR_LENGTH |-> Some(50), DATA_PRECISION |-> Null, DATA_SCALE |-> Null,
       IS_PRIMARY_KEY |-> "N", COMMENTS |-> Null] }

\* Rows of the foreign-key query: (parent column, "schema.table.column"); the
\* target is a concatenation around two dots and so never empty.
FkRows ==
    {"ID", "CUSTOMER_ID", "NOTE"} \X {"dbo.CUSTOMERS.ID", "dbo.REGIONS.CODE"}

\* The column rows of a table: at most MaxRows, no column name twice.
ColumnResults(d) ==
    { rs \in SeqsUpTo(IF d = "A" THEN ColumnRowsA ELSE ColumnRowsB, MaxRows) :
        \A j, k \in DOMAIN rs : j /= k => rs[j].COLUMN_NAME /= rs[k].COLUMN_NAME }

\* A lookup keyed by the referenced column instead of the parent column.
FkDict_KeyedByTarget(rows) ==
    [c \in {rows[k][2] : k \in DOMAIN rows} |->
        rows[CHOOSE k \in DOMAIN rows :
                /\ rows[k][2] = c
                /\ \A j \in DOMAIN rows : rows[j][2] = c => j <= k][1]]

\* fk_dict = {row[0]: row[1] for row in fk_results}: a later row of the same
\* parent column replaces an earlier one.
FkDict(rows) ==
    [c \in {rows[k][1] : k \in DOMAIN rows} |->
        rows[CHOOSE k \in DOMAIN rows :
                /\ rows[k][1] = c
                /\ \A j \in DOMAIN rows : rows[j][1] = c => j <= k][2]]

\* column_info of one row.
ColumnInfo(d, table_name, r, fk_dict) ==
    [table_name |-> table_name,
     column_name |-> r.COLUMN_NAME,
     data_type |-> FormatType(d, r),
     Nullable |-> IF d = "A"
                  THEN (IF r.IS_NULLABLE = "YES" THEN "Y" ELSE "N")
                  ELSE (IF r.NULLABLE = "Y" THEN "Y" ELSE "N"),
     PK |-> r.IS_PRIMARY_KEY,
     FK |-> IF r.COLUMN_NAME \in DOMAIN fk_dict THEN "Y" ELSE "N",
     FK_ref |-> IF r.COLUMN_NAME \in DOMAIN fk_dict THEN fk_dict[r.COLUMN_NAME] ELSE "",
     description |-> OrEmpty(IF d = "A" THEN r.COLUMN_DESCRIPTION ELSE r.COMMENTS)]

\* The list get_column_info returns for the rows of its two queries.
ColumnInfos(d, table_name, rs, fks) ==
    [k \in DOMAIN rs |-> ColumnInfo(d, table_name, rs[k], FkDict(fks))]

InitCol ==
    /\ dialect \in Dialects
    /\ results \in ColumnResults(dialect)
    /\ fk_results \in SeqsUpTo(FkRows, MaxFk)
    /\ columns = Null
    /\ RunInit
    /\ StyleIdle
    /\ TypeIdle

\* get_column_info(connection, 'ORDERS') after its two queries returned.
BuildColumns ==
    /\ columns = Null
    /\ columns' = Some(ColumnInfos(dialect, "ORDERS", results, fk_results))
    /\ UNCHANGED <<dialect, runVars, typeVars, results, fk_results, styleVars>>

NextCol == BuildColumns

SpecCol == InitCol /\ [][NextCol]_vars

\* C5: in every returned column row FK is 'Y' exactly when the reference is
\* non-empty and exactly when the column is the parent column of some
\* foreign-key row, and the reference shown is a target some foreign-key row
\* gives for that column; one row is returned per column row, in order.
C5_ForeignKeyConsistent ==
    columns /= Null =>
        /\ Len(columns[1]) = Len(results)
        /\ \A k \in 1..Len(columns[1]) :
              LET c == columns[1][k] IN
              /\ c.column_name = results[k].COLUMN_NAME
              /\ c.FK \in {"Y", "N"}
              /\ c.FK = "Y" <=> c.FK_ref /= ""
              /\ c.FK = "Y" <=>
                    \E j \in 1..Len(fk_results) : fk_results[j][1] = c.column_name
              /\ c.FK = "Y" =>
                    \E j \in 1..Len(fk_results) :
                        fk_results[j] = <<c.column_name, c.FK_ref>>

C5_Witness ==
    /\ columns /= Null
    /\ \E k \in 1..Len(columns[1]) : columns[1][k].FK = "Y"
    /\ \E k \in 1..Len(columns[1]) : columns[1][k].FK = "N"
    /\ \E j, k \in 1..Len(fk_results) :
          /\ j < k
          /\ fk_results[j][1] = fk_results[k][1]
          /\ fk_results[j][2] /= fk_results[k][2]
          /\ \E m \in 1..Len(results) : results[m].COLUMN_NAME = fk_results[j][1]

----------------------------------------------------------------------------
(* apply_sheet_style: the width of one worksheet column *)

\* The widest column apply_sheet_style of db_schema_to_excel sets.
MaxWidth == 50

\* What both implementations add to the longest value.
WidthPadding == 2

RECURSIVE Str(_)
\* A cell text of n characters.
Str(n) == IF n = 0 THEN "" ELSE Str(n - 1) \o "x"

\* str(cell.value): an empty cell has the value None, which prints as 'None'.
StrOf(v) == IF v = Null THEN "None" ELSE v[1]

RECURSIVE MaxLength(_, _)
\* The loop over the cells of a column: max_length starts at acc and is
\* replaced by every longer len(str(cell.value)).
MaxLength(cells, acc) ==
    IF cells = <<>> THEN acc
    ELSE MaxLength(Tail(cells),
                   IF Len(StrOf(Head(cells))) > acc
                   THEN Len(StrOf(Head(cells))) ELSE acc)

Min(a, b) == IF a < b THEN a ELSE b

\* The cap left out of the width.
ColumnWidthExcel_NoCap(cells) == MaxLength(cells, 0) + WidthPadding

\* db_schema_to_excel.apply_sheet_style: adjusted_width = min(max_length + 2, 50)
ColumnWidthExcel(cells) == Min(MaxLength(cells, 0) + WidthPadding, MaxWidth)

\* db_schema_utils.apply_sheet_style: adjusted_width = (max_length + 2)
ColumnWidthUtils(cells) == MaxLength(cells, 0) + WidthPadding

\* The width one call leaves on the column: the loop runs over every cell of
\* the worksheet column, not only the rows of the styled region, and the
\* utilities' version sets nothing for an empty frame.
StyledWidth(call, cells) ==
    IF call.impl = "excel" THEN Some(ColumnWidthExcel(cells))
    ELSE IF call.n > 0 THEN Some(ColumnWidthUtils(cells))
    ELSE Null

\* Cell values of the model: an empty cell, or a text of one of these lengths.
CellValues == {Null} \cup {Some(Str(n)) : n \in {3, 48, 49, 60}}

\* A worksheet column of 1..MaxCells cells and a call whose region (header row
\* startrow + 1, then n data rows) lies within it.
InitStyle ==
    /\ dialect \in Dialects
    /\ wsColumn \in UNION { [1..k -> CellValues] : k \in 1..MaxCells }
    /\ styleCall \in
          { Some([impl |-> IF dialect = "A" THEN "excel" ELSE "utils",
                  startrow |-> s, n |-> n]) :
            s \in 0..(MaxCells - 1), n \in 0..(MaxCells - 1) }
    /\ styleCall[1].startrow + styleCall[1].n + 1 <= Len(wsColumn)
    /\ width = Null
    /\ RunInit
    /\ TypeIdle
    /\ ColIdle

\* apply_sheet_style(worksheet, df, startrow) as far as the column's width.
SetColumnWidth ==
    /\ styleCall /= Null
    /\ width = Null
    /\ StyledWidth(styleCall[1], wsColumn) /= Null
    /\ width' = StyledWidth(styleCall[1], wsColumn)
    /\ UNCHANGED <<dialect, runVars, typeVars, colVars, wsColumn, styleCall>>

NextStyle == SetColumnWidth

SpecStyle == InitStyle /\ [][NextStyle]_vars

\* The lengths of the stringified values of the cells at the given rows.
LengthsAt(rows) == { Len(StrOf(wsColumn[r])) : r \in rows }

\* The rows of the styled region: the header row and the n data rows.
RegionRows == (styleCall[1].startrow + 1)..(styleCall[1].startrow + styleCall[1].n + 1)

\* The greatest element of a non-empty set of numbers.
Greatest(S) == CHOOSE x \in S : \A y \in S : y <= x

\* C11 as stated: the width is min(L, 50) + 2 with L the longest stringified
\* value of the column within the region, in both implementations.
C11_WidthIsCapPlusPadding ==
    width /= Null =>
        LET L == Greatest(LengthsAt(RegionRows))
        IN width[1] = (IF L <= 50 THEN L ELSE 50) + 2

\* C11 (amended): with L the longest stringified value over every cell of the
\* worksheet column, an empty cell counting as 'None', the width set by
\* db_schema_to_excel.apply_sheet_style is min(L + 2, 50): L + 2 up to L = 48
\* and 50 beyond; the width set by db_schema_utils.apply_sheet_style is L + 2
\* without a cap, and is set only for a frame that is not empty.
C11_WidthByImplementation ==
    width /= Null =>
        LET L == Greatest(LengthsAt(1..Len(wsColumn)))
            w == width[1]
        IN IF styleCall[1].impl = "excel"
           THEN /\ w <= 50
                /\ L <= 48 => w = L + 2
                /\ L > 48 => w = 50
           ELSE /\ w = L + 2
                /\ styleCall[1].n > 0

C11_Witness ==
    /\ width /= Null
    /\ styleCall[1].impl = "excel"
    /\ Greatest(LengthsAt(1..Len(wsColumn))) = 60
    /\ Greatest(LengthsAt(RegionRows)) = 4
    /\ width[1] = 50

----------------------------------------------------------------------------
(* The order of the steps of a run *)

\* The steps executed so far as (operation, table) pairs.
Steps == [k \in 1..Len(log) |-> <<log[k].op, log[k].on>>]

RECURSIVE TableSteps(_)
\* For each table of the list in order: its column rows and foreign keys, its
\* indexes, then its sheet.
TableSteps(ts) ==
    IF ts = <<>> THEN <<>>
    ELSE << <<"column_query", Head(ts).TABLE_NAME>>,
            <<"fk_query", Head(ts).TABLE_NAME>>,
            <<"index_query", Head(ts).TABLE_NAME>>,
            <<"write_sheet", Head(ts).TABLE_NAME>> >> \o TableSteps(Tail(ts))

ViewSteps == IF Len(views) > 0 THEN << <<"view_sheet", "">> >> ELSE <<>>

\* The steps a step order speaks of: all but the opening of the connection
\* and the creation of the writer.
OrderedSteps == SelectSeq(Steps, LAMBDA e : e[1] \notin {"connect", "create_writer"})

\* C12 as stated: in a successful run the lists are fetched once, then every
\* table in order, then the view sheet if and only if a view exists, then the
\* contents sheet is built, then the links are attached, then the file is
\* saved, then the connection is closed.
C12_ContentsSheetAfterViews ==
    Succeeded =>
        OrderedSteps =
            << <<"table_query", "">>, <<"view_query", "">> >>
            \o TableSteps(tables)
            \o ViewSteps
            \o << <<"build_toc", "">>, <<"links", "">>, <<"save", "">>, <<"close", "">> >>

\* C12 (amended): in a successful run the table list and the view list are
\* fetched once each before anything else is queried; then the writer is
\* created and the contents sheet is built and styled; then every table in
\* table-list order has its columns and indexes fetched and its sheet written
\* before the next one is touched; then the view sheet is built if and only if
\* a view exists; then, in dialect A only, the links of the contents sheet are
\* attached; then the file is saved; then the connection is closed.
C12_ContentsSheetFirst ==
    Succeeded =>
        Steps =
            << <<"connect", "">>, <<"table_query", "">>, <<"view_query", "">>,
               <<"create_writer", "">>, <<"build_toc", "">> >>
            \o TableSteps(tables)
            \o ViewSteps
            \o (IF dialect = "A" THEN << <<"links", "">> >> ELSE <<>>)
            \o << <<"save", "">>, <<"close", "">> >>

C12_Witness ==
    /\ Succeeded
    /\ dialect = "A"
    /\ Len(tables) = 2
    /\ Len(views) >= 1

=============================================================================
